---- MODULE Spec2Model ----
(***************************************************************************)
(* Model of the arm-v7-codemod tree rewrites:                              *)
(*   - PropertyNestingTransform (object-literal classifier/restructurer)   *)
(*   - LROTransform (call-pattern rewriter for begin* methods)             *)
(*   - the drivers that compose them (runCodemod, the idempotence test)    *)
(*                                                                         *)
(* A source file is a tree of kind-tagged records.  A node reference held  *)
(* by a pass is a path into the tree plus a "forgotten" flag, which is     *)
(* what ts-morph's wrapped nodes are: a handle that a later manipulation   *)
(* of an enclosing text range invalidates.  Layout whitespace is not       *)
(* represented: two trees are equal exactly when their token sequences     *)
(* are, so tree equality stands for equality of getText().                 *)
(***************************************************************************)
EXTENDS Integers, Sequences, FiniteSets, TLC

\* ------------------------------------------------------------------ bounds
MaxProps == 3        \* properties in a flat object literal
MaxStmts == 2        \* statements in a call-pattern file
MaxInner == 2        \* properties in a literal nested in a value or argument
MaxRuns  == 2        \* applications of a transform by the idempotence driver
MaxFiles == 2        \* source files matched by the pattern given to runCodemod

\* ------------------------------------------------------- strings as char seqs
UpperChars == <<"A","B","C","D","E","F","G","H","I","J","K","L","M",
                "N","O","P","Q","R","S","T","U","V","W","X","Y","Z">>
LowerChars == <<"a","b","c","d","e","f","g","h","i","j","k","l","m",
                "n","o","p","q","r","s","t","u","v","w","x","y","z">>

isUpperCase(c) == \E j \in 1..Len(UpperChars) : UpperChars[j] = c

toLowerCase(c) ==
  IF isUpperCase(c)
    THEN LowerChars[CHOOSE j \in 1..Len(UpperChars) : UpperChars[j] = c]
    ELSE c

startsWith(s, pre) == Len(s) >= Len(pre) /\ SubSeq(s, 1, Len(pre)) = pre
endsWith(s, suf) ==
  Len(s) >= Len(suf) /\ SubSeq(s, Len(s) - Len(suf) + 1, Len(s)) = suf
\* s.slice(n): drop the first n characters
slice(s, n) == SubSeq(s, n + 1, Len(s))
\* s.slice(0, -n): drop the last n characters
sliceEnd(s, n) == SubSeq(s, 1, Len(s) - n)

BEGIN     == <<"b","e","g","i","n">>
ANDWAIT   == <<"A","n","d","W","a","i","t">>
SUBMITTED == <<"s","u","b","m","i","t","t","e","d">>

\* ------------------------------------------------------------ tree nodes
Nil == [k |-> "nil"]
Id(n) == [k |-> "id", name |-> n]
Obj(ps) == [k |-> "obj", props |-> ps]
\* form: "normal" (key: value), "shorthand" (key), "spread" (...expr),
\*       "method" (key() {}), the member forms getProperties() can return
Prop(form, name, val) == [k |-> "prop", form |-> form, name |-> name, val |-> val]
Await(e) == [k |-> "await", e |-> e]
Member(target, name) == [k |-> "member", target |-> target, name |-> name]
Call(callee, args) == [k |-> "call", callee |-> callee, args |-> args]
Decl(name, init) == [k |-> "decl", name |-> name, init |-> init]
\* host: where the declaration list sits
\*   "block"  - a VariableStatement whose parent is a Block or the SourceFile
\*   "clause" - a VariableStatement whose parent is a case clause
\*   "for"    - the initializer of a for statement (no VariableStatement)
VarStmt(host, decls) == [k |-> "var", host |-> host, decls |-> decls]
ExprStmt(e) == [k |-> "expr", e |-> e]
File(stmts) == [k |-> "file", stmts |-> stmts]

Children(n) ==
  CASE n.k = "file"   -> n.stmts
    [] n.k = "var"    -> n.decls
    [] n.k = "decl"   -> <<n.init>>
    [] n.k = "expr"   -> <<n.e>>
    [] n.k = "await"  -> <<n.e>>
    [] n.k = "call"   -> <<n.callee>> \o n.args
    [] n.k = "member" -> <<n.target>>
    [] n.k = "obj"    -> n.props
    [] n.k = "prop"   -> IF n.form = "normal" THEN <<n.val>> ELSE <<>>
    [] OTHER          -> <<>>

WithChild(n, j, c) ==
  CASE n.k = "file"   -> [n EXCEPT !.stmts[j] = c]
    [] n.k = "var"    -> [n EXCEPT !.decls[j] = c]
    [] n.k = "decl"   -> [n EXCEPT !.init = c]
    [] n.k = "expr"   -> [n EXCEPT !.e = c]
    [] n.k = "await"  -> [n EXCEPT !.e = c]
    [] n.k = "call"   -> IF j = 1 THEN [n EXCEPT !.callee = c]
                                  ELSE [n EXCEPT !.args[j - 1] = c]
    [] n.k = "member" -> [n EXCEPT !.target = c]
    [] n.k = "obj"    -> [n EXCEPT !.props[j] = c]
    [] n.k = "prop"   -> [n EXCEPT !.val = c]

RECURSIVE NodeAt(_, _)
NodeAt(n, p) == IF p = <<>> THEN n ELSE NodeAt(Children(n)[Head(p)], Tail(p))

RECURSIVE ReplaceAt(_, _, _)
ReplaceAt(n, p, new) ==
  IF p = <<>> THEN new
  ELSE WithChild(n, Head(p), ReplaceAt(Children(n)[Head(p)], Tail(p), new))

Parent(p) == SubSeq(p, 1, Len(p) - 1)
IsPrefix(p, q) == Len(p) <= Len(q) /\ SubSeq(q, 1, Len(p)) = p

\* getDescendantsOfKind: the paths of the nodes of one kind below n, in
\* document (pre-)order
RECURSIVE DescendantsFrom(_, _, _, _)
RECURSIVE DescendantsOfKindAt(_, _, _)
DescendantsFrom(n, here, kind, j) ==
  IF j > Len(Children(n)) THEN <<>>
  ELSE DescendantsOfKindAt(Children(n)[j], Append(here, j), kind)
         \o DescendantsFrom(n, here, kind, j + 1)
DescendantsOfKindAt(n, here, kind) ==
  (IF n.k = kind THEN <<here>> ELSE <<>>) \o DescendantsFrom(n, here, kind, 1)

getDescendantsOfKind(root, kind) == DescendantsFrom(root, <<>>, kind, 1)

\* ------------------------------------------------ PropertyNestingTransform
Undefined == "<undefined>"

\* topLevelProperties with one entry of the list left out
topLevelProperties_noSku ==
  {"location", "tags", "identity", "id", "name", "type", "kind",
   "etag", "systemData", "zones", "extendedLocation"}

topLevelProperties ==
  {"location", "sku", "tags", "identity", "id", "name", "type", "kind",
   "etag", "systemData", "zones", "extendedLocation"}

\* prop.getName() of a property assignment or shorthand; undefined for any
\* other member form
getPropertyName(prop) ==
  IF prop.form = "normal" THEN prop.name
  ELSE IF prop.form = "shorthand" THEN prop.name
  ELSE Undefined

shouldTransformObjectLiteral(lit) ==
  LET properties == lit.props
      Named == {j \in 1..Len(properties) :
                  /\ properties[j].form # "spread"
                  /\ getPropertyName(properties[j]) # Undefined}
      hasTopLevelProp ==
        \E j \in Named : getPropertyName(properties[j]) \in topLevelProperties
      hasNestableProp ==
        \E j \in Named :
          /\ getPropertyName(properties[j]) \notin topLevelProperties
          /\ getPropertyName(properties[j]) # "properties"
  IN  IF Len(properties) = 0 THEN FALSE
      ELSE hasTopLevelProp /\ hasNestableProp

\* the find() of transformObjectLiteral: a property assignment named
\* `properties`
existingProperties(lit) ==
  \E j \in 1..Len(lit.props) :
    lit.props[j].form = "normal" /\ lit.props[j].name = "properties"

IsSpread(prop) == prop.form = "spread"
IsTopLevelProp(prop) ==
  /\ prop.form # "spread"
  /\ getPropertyName(prop) # Undefined
  /\ getPropertyName(prop) \in topLevelProperties
IsNestedProp(prop) ==
  /\ prop.form # "spread"
  /\ getPropertyName(prop) # Undefined
  /\ getPropertyName(prop) \notin topLevelProperties

Reverse(q) == [j \in 1..Len(q) |-> q[Len(q) + 1 - j]]

\* categorizeProperties pushing the allow-listed properties to nested as well
categorizeProperties_nestAll(lit) ==
  [topLevel |-> SelectSeq(lit.props, IsTopLevelProp),
   nested   |-> SelectSeq(lit.props, LAMBDA m : IsTopLevelProp(m) \/ IsNestedProp(m)),
   spreads  |-> SelectSeq(lit.props, IsSpread)]

\* categorizeProperties with nested.unshift(prop) in place of nested.push(prop)
categorizeProperties_unshift(lit) ==
  [topLevel |-> SelectSeq(lit.props, IsTopLevelProp),
   nested   |-> Reverse(SelectSeq(lit.props, IsNestedProp)),
   spreads  |-> SelectSeq(lit.props, IsSpread)]

categorizeProperties(lit) ==
  [topLevel |-> SelectSeq(lit.props, IsTopLevelProp),
   nested   |-> SelectSeq(lit.props, IsNestedProp),
   spreads  |-> SelectSeq(lit.props, IsSpread)]

\* restructureObjectLiteral with the wrapper key misspelt
restructureObjectLiteral_wrongKey(topLevel, nested, spreads) ==
  Obj(topLevel \o <<Prop("normal", "property", Obj(nested))>> \o spreads)

\* restructureObjectLiteral pushing the spreads before the wrapper
restructureObjectLiteral_spreadsFirst(topLevel, nested, spreads) ==
  Obj(topLevel \o spreads \o <<Prop("normal", "properties", Obj(nested))>>)

\* the text `{ <topLevel>, properties: { <nested> }, <spreads> }`, which
\* replaceWithText parses back into a literal
restructureObjectLiteral(topLevel, nested, spreads) ==
  Obj(topLevel \o <<Prop("normal", "properties", Obj(nested))>> \o spreads)

\* TRUE when transformObjectLiteral reaches restructureObjectLiteral
willRestructure(lit) ==
  /\ shouldTransformObjectLiteral(lit)
  /\ ~existingProperties(lit)
  /\ Len(categorizeProperties(lit).nested) # 0

\* the literal that stands in the tree after transformObjectLiteral
transformObjectLiteral(lit) ==
  IF ~shouldTransformObjectLiteral(lit) THEN lit
  ELSE IF existingProperties(lit) THEN lit
  ELSE LET c == categorizeProperties(lit)
       IN  IF Len(c.nested) = 0 THEN lit
           ELSE restructureObjectLiteral(c.topLevel, c.nested, c.spreads)

\* ------------------------------------------------------------ LROTransform
\* isBeginMethod without the test of the character after the prefix
isBeginMethod_anyCase(methodName) ==
  /\ startsWith(methodName, BEGIN)
  /\ Len(methodName) > 5

isBeginMethod(methodName) ==
  /\ startsWith(methodName, BEGIN)
  /\ Len(methodName) > 5
  /\ isUpperCase(methodName[6])

\* isAndWaitMethod with startsWith in place of endsWith
isAndWaitMethod_prefix(methodName) == startsWith(methodName, ANDWAIT)

isAndWaitMethod(methodName) == endsWith(methodName, ANDWAIT)

\* transformMethodName without the lowercasing of the first character
transformMethodName_noLower(methodName) ==
  LET name0 == slice(methodName, 5)
  IN  IF endsWith(name0, ANDWAIT) THEN sliceEnd(name0, 7) ELSE name0

transformMethodName(methodName) ==
  LET name0 == slice(methodName, 5)
      name  == IF endsWith(name0, ANDWAIT) THEN sliceEnd(name0, 7) ELSE name0
  IN  IF Len(name) = 0 THEN <<>>
      ELSE <<toLowerCase(name[1])>> \o slice(name, 1)

\* The outcome of one rewrite: the new tree, the path of the text range
\* that was replaced (every node held at or below it is forgotten; Nil when
\* only a name token was replaced or nothing was), and the index at which a
\* statement was inserted (0 when none).
Effect(t, kill, ins) == [tree |-> t, kill |-> kill, ins |-> ins]
NoEffect(t) == Effect(t, Nil, 0)

\* propertyAccess.getNameNode().replaceWithText(newMethodName)
renameMethod(t, calleePath, newMethodName) ==
  ReplaceAt(t, calleePath,
            [NodeAt(t, calleePath) EXCEPT !.name = newMethodName])

transformAndWaitPattern(t, p, methodName) ==
  NoEffect(renameMethod(t, p \o <<1, 1>>, transformMethodName(methodName)))

InsertAt(seq, j, x) == SubSeq(seq, 1, j - 1) \o <<x>> \o SubSeq(seq, j, Len(seq))

SubmittedStatement(variableName) ==
  ExprStmt(Await(Call(Member(Id(variableName), SUBMITTED), <<>>)))

\* transformPollerAssignment with insertStatements(index, ...)
transformPollerAssignment_insertBefore(t, p) ==
  LET declPath     == Parent(p)
      variableName == NodeAt(t, declPath).name
      t1    == ReplaceAt(t, p, NodeAt(t, p).e)
      stmt  == NodeAt(t1, Parent(declPath))
      index == declPath[1]
  IN  IF stmt.host = "block"
        THEN Effect([t1 EXCEPT !.stmts =
                       InsertAt(t1.stmts, index,
                                SubmittedStatement(variableName))],
                    p, index)
        ELSE Effect(t1, p, 0)

\* transformPollerAssignment with the initializer rebuilt from the callee
\* text and an empty argument list
transformPollerAssignment_dropArgs(t, p) ==
  LET declPath     == Parent(p)
      variableName == NodeAt(t, declPath).name
      t1    == ReplaceAt(t, p, Call(NodeAt(t, p).e.callee, <<>>))
      stmt  == NodeAt(t1, Parent(declPath))
      index == declPath[1]
  IN  IF stmt.host = "block"
        THEN Effect([t1 EXCEPT !.stmts =
                       InsertAt(t1.stmts, index + 1,
                                SubmittedStatement(variableName))],
                    p, index + 1)
        ELSE Effect(t1, p, 0)

\* t already carries the renamed method; p is the await-expression, the
\* initializer of the declaration at Parent(p)
transformPollerAssignment(t, p) ==
  LET declPath     == Parent(p)
      decl         == NodeAt(t, declPath)
      variableName == decl.name
      callExpression == NodeAt(t, p).e
      t1    == ReplaceAt(t, p, callExpression)   \* setInitializer(call text)
      stmtPath == Parent(declPath)
      stmt  == NodeAt(t1, stmtPath)
      index == stmtPath[1]
  IN  IF stmt.host = "for" THEN Effect(t1, p, 0)
      ELSE IF stmt.host = "block"
        THEN Effect([t1 EXCEPT !.stmts =
                       InsertAt(t1.stmts, index + 1,
                                SubmittedStatement(variableName))],
                    p, index + 1)
        ELSE Effect(t1, p, 0)

\* transformDirectAwait with replaceWithText on the await-expression itself
transformDirectAwait_replaceAwait(t, p) ==
  LET callExpression == NodeAt(t, p).e
      newExpression  == Call(Member(callExpression, SUBMITTED), <<>>)
  IN  Effect(ReplaceAt(t, p, newExpression), p, 0)

transformDirectAwait(t, p) ==
  LET callExpression == NodeAt(t, p).e
      newExpression  == Call(Member(callExpression, SUBMITTED), <<>>)
  IN  Effect(ReplaceAt(t, p \o <<1>>, newExpression), p \o <<1>>, 0)

transformBeginPattern(t, p, methodName) ==
  LET t1 == renameMethod(t, p \o <<1, 1>>, transformMethodName(methodName))
  IN  IF Len(p) >= 1 /\ NodeAt(t1, Parent(p)).k = "decl"
        THEN transformPollerAssignment(t1, p)
        ELSE transformDirectAwait(t1, p)

\* transformAwaitExpression treating an awaited call whose callee is not a
\* property access as a direct await
transformAwaitExpression_anyCallee(t, p) ==
  LET expression == NodeAt(t, p).e
  IN  IF expression.k # "call" THEN NoEffect(t)
      ELSE IF expression.callee.k # "member" THEN transformDirectAwait(t, p)
      ELSE LET methodName == expression.callee.name
           IN  IF ~isBeginMethod(methodName) THEN NoEffect(t)
               ELSE IF isAndWaitMethod(methodName)
                 THEN transformAndWaitPattern(t, p, methodName)
                 ELSE transformBeginPattern(t, p, methodName)

transformAwaitExpression(t, p) ==
  LET expression == NodeAt(t, p).e
  IN  IF expression.k # "call" THEN NoEffect(t)
      ELSE IF expression.callee.k # "member" THEN NoEffect(t)
      ELSE LET methodName == expression.callee.name
           IN  IF ~isBeginMethod(methodName) THEN NoEffect(t)
               ELSE IF isAndWaitMethod(methodName)
                 THEN transformAndWaitPattern(t, p, methodName)
                 ELSE transformBeginPattern(t, p, methodName)

\* ------------------------------------------------------------ input trees
SeqsUpTo(S, n) == UNION {[1..m -> S] : m \in 0..n}

V == Id("v")

\* the member forms of a flat literal
FlatProps ==
  {Prop("normal", key, V) : key \in {"location", "sku", "foo", "bar", "properties"}}
    \cup {Prop("shorthand", key, Nil) : key \in {"location", "properties"}}
    \cup {Prop("spread", key, Nil) : key \in {"rest", "more"}}
    \cup {Prop("method", key, Nil) : key \in {"run"}}
FlatLits == {Obj(ps) : ps \in SeqsUpTo(FlatProps, MaxProps)}

\* literals that occur as a property value or an argument
InnerProps ==
  {Prop("normal", "location", V), Prop("normal", "foo", V),
   Prop("normal", "properties", V), Prop("shorthand", "properties", Nil)}
InnerLits == {Obj(ps) : ps \in SeqsUpTo(InnerProps, MaxInner)}

AroundProps ==
  {Prop("normal", "location", V), Prop("normal", "bar", V),
   Prop("spread", "rest", Nil)}
NestedLits ==
  {Obj(pre \o <<Prop("normal", key, inner)>> \o post) :
     pre \in SeqsUpTo(AroundProps, 1), post \in SeqsUpTo(AroundProps, 1),
     key \in {"sku", "foo"}, inner \in InnerLits}

LitStmt(lit) == VarStmt("block", <<Decl("r", lit)>>)

NestedFiles == {File(<<LitStmt(lit)>>) : lit \in NestedLits}
LiteralFiles ==
  {File(<<LitStmt(lit)>>) : lit \in FlatLits} \cup NestedFiles
    \cup {File(<<LitStmt(a), LitStmt(b)>>) : a \in InnerLits, b \in InnerLits}

\* method names, as character sequences
beginStart == BEGIN \o <<"S","t","a","r","t">>
beginStartAndWait == beginStart \o ANDWAIT
beginBeginStartAndWait == BEGIN \o <<"B","e","g","i","n","S","t","a","r","t">> \o ANDWAIT
beginwork == BEGIN \o <<"w","o","r","k">>
start == <<"s","t","a","r","t">>
CreateOrUpdate == <<"C","r","e","a","t","e","O","r","U","p","d","a","t","e">>
beginCreateOrUpdate == BEGIN \o CreateOrUpdate
beginCreateOrUpdateAndWait == beginCreateOrUpdate \o ANDWAIT
MethodNames ==
  {beginStart, beginStartAndWait, beginBeginStartAndWait, beginwork, BEGIN, start,
   beginCreateOrUpdate, beginCreateOrUpdateAndWait}
InnerNames == {beginStart, beginStartAndWait, start}

Client == Id("client")
Eligible == Obj(<<Prop("normal", "location", V), Prop("normal", "foo", V)>>)

ArgLists ==
  {<<>>, <<Id("opts")>>, <<Eligible>>}
    \cup {<<Await(Call(Member(Id("other"), n), <<>>))>> : n \in InnerNames}

\* a member-access chain as the target: client.privateClouds.<method>
Chain == Member(Client, <<"o","p","s">>)
Operands ==
  {Call(Member(Client, n), a) : n \in MethodNames, a \in ArgLists}
    \cup {Call(Member(Chain, n), <<Id("opts"), Eligible>>) :
            n \in {beginStart, beginStartAndWait}}
    \cup {Call(Id("beginStart"), <<>>), Id("promise")}
\* the candidates proper, for the less common statement shapes
CoreOperands ==
  {Call(Member(Client, n), a) :
     n \in {beginStart, beginStartAndWait}, a \in {<<>>, <<Id("opts")>>}}
    \cup {Call(Member(Client, beginStart),
               <<Await(Call(Member(Id("other"), beginStart), <<>>))>>)}

CallStmts ==
  {ExprStmt(Await(op)) : op \in Operands}
    \cup {VarStmt("block", <<Decl("p", Await(op))>>) : op \in Operands}
    \cup {VarStmt(h, <<Decl("p", Await(op))>>) :
            h \in {"clause", "for"}, op \in CoreOperands}
CoreStmts ==
  {ExprStmt(Await(op)) : op \in CoreOperands}
    \cup {VarStmt("block", <<Decl("p", Await(op))>>) : op \in CoreOperands}
    \cup {VarStmt(h, <<Decl("p", Await(Call(Member(Client, beginStart), <<>>)))>>) :
            h \in {"clause", "for"}}

\* one statement declaring two variables: const p = await ..., q = await ...;
MultiDeclStmts ==
  {VarStmt("block", <<Decl("p", Await(Call(Member(Client, a), <<>>))),
                      Decl("q", Await(Call(Member(Client, b), <<>>)))>>) :
     a \in {beginStart, beginStartAndWait}, b \in {beginStart, beginStartAndWait}}

CallFiles ==
  {File(<<st>>) : st \in CallStmts \cup MultiDeclStmts}
    \cup {File(ss) : ss \in SeqsUpTo(CoreStmts, MaxStmts)}

\* literals and candidates inside one another
MixedFiles ==
  {File(<<LitStmt(Obj(<<Prop("normal", "location", V),
                        Prop("normal", "foo", Await(op))>>))>>) :
     op \in CoreOperands}
    \cup {File(<<LitStmt(lit), st>>) : lit \in InnerLits, st \in CoreStmts}

\* the source files of a project handed to runCodemod
ProjectFiles ==
  {File(<<LitStmt(Eligible)>>),
   File(<<VarStmt("block", <<Decl("p", Await(Call(Member(Client, beginStart), <<>>)))>>)>>),
   File(<<ExprStmt(Await(Call(Member(Client, beginStartAndWait), <<Eligible>>)))>>),
   File(<<ExprStmt(Await(Call(Member(Client, beginStart),
            <<Await(Call(Member(Id("other"), beginStart), <<>>))>>)))>>),
   File(<<>>)}
Projects == SeqsUpTo(ProjectFiles, MaxFiles)

\* "literal", "lro", "pipeline": the test drivers, one file, transforms
\* applied MaxRuns times; "codemod": runCodemod over a project
\* "commute": one tree given to the two transforms in either order
Modes == {"literal", "lro", "pipeline", "codemod", "commute"}

\* Transforms with the two calls of the forEach body exchanged
Transforms_swapped(m) ==
  CASE m = "literal"  -> <<"nest">>
    [] m = "lro"      -> <<"lro">>
    [] m = "pipeline" -> <<"lro", "nest">>
    [] m = "codemod"  -> <<"lro", "nest">>
    [] m = "commute"  -> <<"lro", "nest">>

Transforms(m) ==
  CASE m = "literal"  -> <<"nest">>
    [] m = "lro"      -> <<"lro">>
    [] m = "pipeline" -> <<"nest", "lro">>
    [] m = "codemod"  -> <<"nest", "lro">>
    [] m = "commute"  -> <<"nest", "lro">>
FilesOf(m) ==
  CASE m = "literal"  -> LiteralFiles \cup MixedFiles
    [] m = "lro"      -> CallFiles \cup MixedFiles
    [] m = "pipeline" -> NestedFiles \cup CallFiles \cup MixedFiles
    [] m = "commute"  -> MixedFiles \cup {File(<<st>>) : st \in CallStmts}

\* ------------------------------------------------------------------ state
VARIABLES
  mode,     \* which transforms the driver applies in one run
  input,    \* the tree as parsed
  tree,     \* the SourceFile being mutated
  pc,       \* "ready" | "lit" | "await" | "done" | "threw"
  todo,     \* transforms of the current run still to apply
  run,      \* number of the current run, from 1
  texts,    \* getText() taken at the end of each completed run
  refs,     \* the nodes enumerated by the running pass: [path, forgotten]
  i,        \* loop index into refs
  stale,    \* TRUE once a step has dereferenced a forgotten node
  last,     \* the most recent step of a pass: what it was given and left
  files,    \* sourceFiles of the project, as last left by the transforms
  cur,      \* index in files of the file being processed
  saved,    \* TRUE once project.saveSync() has run
  events    \* the passes started and ended so far, and the save, in order

vars == <<mode, input, tree, pc, todo, run, texts, refs, i, stale, last,
          files, cur, saved, events>>
project == <<files, cur, saved>>

Event(what) == [file |-> cur, what |-> what]

NoStep == [op |-> "none"]

Ref(path) == [path |-> path, forgotten |-> FALSE]
RefsOf(paths) == [j \in 1..Len(paths) |-> Ref(paths[j])]

\* AfterEffect over a live list: the await-expression of an inserted
\* statement joins the nodes being iterated
AfterEffect_live(rs, eff) ==
  [j \in 1..Len(rs) |->
     LET r == rs[j]
         killed == eff.kill # Nil /\ IsPrefix(eff.kill, r.path)
         moved  == eff.ins # 0 /\ r.path[1] >= eff.ins
     IN  [path |-> IF moved THEN [r.path EXCEPT ![1] = @ + 1] ELSE r.path,
          forgotten |-> r.forgotten \/ killed]]
    \o (IF eff.ins # 0 THEN <<Ref(<<eff.ins, 1>>)>> ELSE <<>>)

\* what a manipulation does to the handles the pass still holds
AfterEffect(rs, eff) ==
  [j \in 1..Len(rs) |->
     LET r == rs[j]
         killed == eff.kill # Nil /\ IsPrefix(eff.kill, r.path)
         moved  == eff.ins # 0 /\ r.path[1] >= eff.ins
     IN  [path |-> IF moved THEN [r.path EXCEPT ![1] = @ + 1] ELSE r.path,
          forgotten |-> r.forgotten \/ killed]]

\* a test driver: createSourceFile("test.ts", input)
InitDriver ==
  /\ mode \in Modes \ {"codemod"}
  /\ input \in FilesOf(mode)
  /\ tree = input
  /\ files = <<input>>
  /\ cur = 1
  /\ todo = Transforms(mode)

\* runCodemod: sourceFiles = project.addSourceFilesAtPaths(pattern)
InitCodemod ==
  /\ mode = "codemod"
  /\ files \in Projects
  /\ input = Nil
  /\ tree = Nil
  /\ cur = 0
  /\ todo = <<>>

Init ==
  /\ (InitDriver \/ InitCodemod)
  /\ pc = "ready"
  /\ run = 1
  /\ texts = <<>>
  /\ refs = <<>>
  /\ i = 0
  /\ stale = FALSE
  /\ last = NoStep
  /\ saved = FALSE
  /\ events = <<>>

\* StartNesting with the loop running over the literals first to last
StartNesting_firstToLast ==
  /\ pc = "ready" /\ todo # <<>> /\ Head(todo) = "nest"
  /\ refs' = RefsOf(Reverse(getDescendantsOfKind(tree, "obj")))
  /\ i' = Len(refs')
  /\ pc' = "lit"
  /\ last' = NoStep
  /\ events' = Append(events, Event("nest.start"))
  /\ UNCHANGED <<mode, input, tree, todo, run, texts, stale, project>>

\* PropertyNestingTransform.transform: enumerate the literals once
StartNesting ==
  /\ pc = "ready" /\ todo # <<>> /\ Head(todo) = "nest"
  /\ refs' = RefsOf(getDescendantsOfKind(tree, "obj"))
  /\ i' = Len(refs')
  /\ pc' = "lit"
  /\ last' = NoStep
  /\ events' = Append(events, Event("nest.start"))
  /\ UNCHANGED <<mode, input, tree, todo, run, texts, stale, project>>

\* one iteration of the loop of processObjectLiterals, last literal first
NestingStep ==
  /\ pc = "lit" /\ i >= 1
  /\ LET r == refs[i] IN
       IF r.forgotten
         THEN /\ last' = [op |-> "skip", run |-> run, path |-> r.path]
              /\ UNCHANGED <<tree, refs>>
         ELSE LET lit == NodeAt(tree, r.path)
                  out == transformObjectLiteral(lit)
              IN  /\ last' = [op |-> "nest", run |-> run, path |-> r.path,
                              before |-> lit, after |-> out,
                              restructured |-> willRestructure(lit)]
                  /\ tree' = ReplaceAt(tree, r.path, out)
                  /\ refs' = IF willRestructure(lit)
                               THEN AfterEffect(refs, Effect(tree', r.path, 0))
                               ELSE refs
  /\ i' = i - 1
  /\ UNCHANGED <<mode, input, pc, todo, run, texts, stale, project, events>>

NestingReturn ==
  /\ pc = "lit" /\ i = 0
  /\ pc' = "ready"
  /\ todo' = Tail(todo)
  /\ refs' = <<>>
  /\ events' = Append(events, Event("nest.end"))
  /\ UNCHANGED <<mode, input, tree, run, texts, i, stale, last, project>>

\* LROTransform.transform: enumerate the await-expressions once
StartLRO ==
  /\ pc = "ready" /\ todo # <<>> /\ Head(todo) = "lro"
  /\ refs' = RefsOf(getDescendantsOfKind(tree, "await"))
  /\ i' = 1
  /\ pc' = "await"
  /\ last' = NoStep
  /\ events' = Append(events, Event("lro.start"))
  /\ UNCHANGED <<mode, input, tree, todo, run, texts, stale, project>>

\* one iteration of the loop of processAwaitExpressions, in document order.
\* The loop has no wasForgotten() test: getExpression() on a forgotten node
\* throws, and the exception leaves transform().
LROStep ==
  /\ pc = "await" /\ i <= Len(refs)
  /\ LET r == refs[i] IN
       IF r.forgotten
         THEN /\ stale' = TRUE
              /\ pc' = "threw"
              /\ last' = [op |-> "throw", run |-> run, path |-> r.path]
              /\ UNCHANGED <<tree, refs, i>>
         ELSE LET eff == transformAwaitExpression(tree, r.path)
              IN  /\ tree' = eff.tree
                  /\ refs' = AfterEffect(refs, eff)
                  /\ last' = [op |-> "lro", run |-> run, path |-> r.path,
                              pre |-> tree, post |-> eff.tree,
                              before |-> NodeAt(tree, r.path),
                              after |-> NodeAt(eff.tree, r.path),
                              changed |-> eff.tree # tree]
                  /\ i' = i + 1
                  /\ UNCHANGED <<pc, stale>>
  /\ UNCHANGED <<mode, input, todo, run, texts, project, events>>

LROReturn ==
  /\ pc = "await" /\ i > Len(refs)
  /\ pc' = "ready"
  /\ todo' = Tail(todo)
  /\ refs' = <<>>
  /\ i' = 0
  /\ events' = Append(events, Event("lro.end"))
  /\ UNCHANGED <<mode, input, tree, run, texts, stale, last, project>>

\* the driver takes getText() after a run and applies the transforms again
FinishRun ==
  /\ mode \notin {"codemod", "commute"}
  /\ pc = "ready" /\ todo = <<>>
  /\ texts' = Append(texts, tree)
  /\ IF run < MaxRuns
       THEN /\ run' = run + 1
            /\ todo' = Transforms(mode)
            /\ UNCHANGED pc
       ELSE /\ pc' = "done"
            /\ UNCHANGED <<run, todo>>
  /\ files' = [files EXCEPT ![cur] = tree]
  /\ UNCHANGED <<mode, input, tree, refs, i, stale, last, cur, saved, events>>

\* runCodemod: `if (sourceFiles.length === 0) return;`
NoFilesFound ==
  /\ mode = "codemod" /\ pc = "ready" /\ cur = 0
  /\ Len(files) = 0
  /\ pc' = "done"
  /\ UNCHANGED <<mode, input, tree, todo, run, texts, refs, i, stale, last,
                 project, events>>

\* runCodemod: sourceFiles.forEach hands the next file to its callback,
\* the previous callback having returned
NextFile ==
  /\ mode = "codemod" /\ pc = "ready" /\ todo = <<>>
  /\ cur < Len(files)
  /\ cur' = cur + 1
  /\ files' = IF cur >= 1 THEN [files EXCEPT ![cur] = tree] ELSE files
  /\ tree' = files[cur + 1]
  /\ input' = files[cur + 1]
  /\ todo' = Transforms(mode)
  /\ UNCHANGED <<mode, pc, run, texts, refs, i, stale, last, saved, events>>

\* runCodemod: project.saveSync() after the forEach
SaveSync ==
  /\ mode = "codemod" /\ pc = "ready" /\ todo = <<>>
  /\ cur >= 1 /\ cur = Len(files)
  /\ files' = [files EXCEPT ![cur] = tree]
  /\ saved' = TRUE
  /\ events' = Append(events, Event("save"))
  /\ pc' = "done"
  /\ UNCHANGED <<mode, input, tree, todo, run, texts, refs, i, stale, last, cur>>

\* the two transforms applied to one tree in either order: the first order
\* has returned or thrown; its text is kept and the tree is parsed afresh
\* for the opposite order
OtherOrder ==
  /\ mode = "commute" /\ run = 1
  /\ (pc = "ready" /\ todo = <<>>) \/ pc = "threw"
  /\ texts' = Append(texts, tree)
  /\ tree' = input
  /\ run' = 2
  /\ todo' = Reverse(Transforms(mode))
  /\ pc' = "ready"
  /\ refs' = <<>>
  /\ i' = 0
  /\ UNCHANGED <<mode, input, stale, last, project, events>>

\* the opposite order has returned or thrown: its text is kept too
CompareOrders ==
  /\ mode = "commute" /\ run = 2
  /\ (pc = "ready" /\ todo = <<>>) \/ pc = "threw"
  /\ texts' = Append(texts, tree)
  /\ pc' = "done"
  /\ refs' = <<>>
  /\ i' = 0
  /\ UNCHANGED <<mode, input, tree, todo, run, stale, last, project, events>>

Next ==
  \/ StartNesting
  \/ NestingStep
  \/ NestingReturn
  \/ StartLRO
  \/ LROStep
  \/ LROReturn
  \/ FinishRun
  \/ NoFilesFound
  \/ NextFile
  \/ SaveSync
  \/ OtherOrder
  \/ CompareOrders

Spec == Init /\ [][Next]_vars

\* every handle a pass has not lost points at a node of the enumerated kind
RefsValid ==
  \A j \in 1..Len(refs) :
    ~refs[j].forgotten =>
      NodeAt(tree, refs[j].path).k = (IF pc = "lit" THEN "obj" ELSE "await")

\* ================================================================ claims
RECURSIVE IsSubseq(_, _)
IsSubseq(a, b) ==
  IF a = <<>> THEN TRUE
  ELSE IF b = <<>> THEN FALSE
  ELSE IF Head(a) = Head(b) THEN IsSubseq(Tail(a), Tail(b))
  ELSE IsSubseq(a, Tail(b))

Count(q, x) == Cardinality({j \in 1..Len(q) : q[j] = x})
CountIf(q, Test(_)) == Cardinality({j \in 1..Len(q) : Test(q[j])})

\* the key of a member of a literal as written in the source text; a spread
\* has none
HasKey(prop, key) == prop.form # "spread" /\ prop.name = key
Allowed(prop) == prop.form # "spread" /\ prop.name \in topLevelProperties
Movable(prop) ==
  prop.form # "spread" /\ prop.name \notin topLevelProperties
     /\ prop.name # "properties"
Named(prop) == prop.form \in {"normal", "shorthand"}

Restructured == last.op = "nest" /\ last.restructured
\* the positions of the keys named `properties` in the rebuilt literal
WrapperAt(lit) == {j \in 1..Len(lit.props) : HasKey(lit.props[j], "properties")}
TheWrapper(lit) == CHOOSE j \in WrapperAt(lit) : TRUE
TopBucket(lit) == SubSeq(lit.props, 1, TheWrapper(lit) - 1)
NestedBucket(lit) == lit.props[TheWrapper(lit)].val.props
SpreadBucket(lit) == SubSeq(lit.props, TheWrapper(lit) + 1, Len(lit.props))

\* C1: the object-literal transform is idempotent: the text after every
\* further run equals the text after the first run, and no step of a
\* further run restructures a literal.
C1_LiteralIdempotent ==
  mode = "literal" =>
    /\ \A n \in 1..Len(texts) : texts[n] = texts[1]
    /\ (last.op = "nest" /\ last.run >= 2) => ~last.restructured

C1_Witness ==
  /\ mode = "literal" /\ pc = "done"
  /\ texts[1] # input
  /\ Len(getDescendantsOfKind(input, "obj")) >= 2
  /\ Len(getDescendantsOfKind(texts[1], "obj"))
       >= Len(getDescendantsOfKind(input, "obj")) + 2

\* C2: the call-pattern transform is idempotent: the text after a second
\* run equals the text after the first run.
C2_LROIdempotent ==
  mode = "lro" => \A n \in 1..Len(texts) : texts[n] = texts[1]

\* C3: the composed pipeline (literal transform, then call-pattern
\* transform) is idempotent.
C3_PipelineIdempotent ==
  mode = "pipeline" => \A n \in 1..Len(texts) : texts[n] = texts[1]

\* C4: neither transformer raises an exception on any input tree.
C4_NeverThrows == pc # "threw"

\* C5: a candidate whose node was invalidated by an earlier step of the
\* same pass is skipped; no step reads or mutates an invalidated node.
C5_NoStaleAccess == stale = FALSE

\* C6: a literal is restructured exactly when it has at least one property,
\* no property of any form named `properties`, a non-spread key in the
\* allow-list, and a non-spread key neither in the allow-list nor equal to
\* `properties`.
C6_Eligible(lit) ==
  /\ Len(lit.props) >= 1
  /\ \A j \in 1..Len(lit.props) : ~HasKey(lit.props[j], "properties")
  /\ \E j \in 1..Len(lit.props) : Named(lit.props[j]) /\ Allowed(lit.props[j])
  /\ \E j \in 1..Len(lit.props) : Named(lit.props[j]) /\ Movable(lit.props[j])
C6_ClassifierExact ==
  last.op = "nest" => (last.restructured <=> C6_Eligible(last.before))

\* C7: a literal with no properties, or only allow-listed keys, or no
\* allow-listed key, or a `properties` key (as `properties: value` or as
\* shorthand `properties`) is left unchanged by the literal transform.
C7_Guarded(lit) ==
  \/ Len(lit.props) = 0
  \/ \A j \in 1..Len(lit.props) : Named(lit.props[j]) /\ Allowed(lit.props[j])
  \/ \A j \in 1..Len(lit.props) : ~Allowed(lit.props[j])
  \/ \E j \in 1..Len(lit.props) :
       Named(lit.props[j]) /\ HasKey(lit.props[j], "properties")
C7_NonTransformationGuard ==
  (last.op = "nest" /\ C7_Guarded(last.before)) => last.after = last.before

\* C8: restructuring loses and duplicates nothing: every member of the input
\* literal, of whatever form, occurs exactly as often in the three buckets
\* of the rebuilt literal, and in the bucket its form and key assign it.
C8_NothingLost ==
  Restructured =>
    LET out == TopBucket(last.after) \o NestedBucket(last.after)
                 \o SpreadBucket(last.after)
    IN  /\ \A j \in 1..Len(last.before.props) :
             Count(out, last.before.props[j])
               = Count(last.before.props, last.before.props[j])
        /\ Len(out) = Len(last.before.props)

\* C9: the rebuilt literal is: the allow-listed non-spread properties, then
\* exactly one `properties: { ... }` holding the nested bucket, then the
\* spreads; it has exactly one key named `properties` at its own level.
C9_Layout ==
  Restructured =>
    LET ps == last.after.props
        w  == TheWrapper(last.after)
    IN  /\ Cardinality(WrapperAt(last.after)) = 1
        /\ ps[w].form = "normal" /\ ps[w].val.k = "obj"
        /\ \A j \in 1..(w - 1) : Named(ps[j]) /\ Allowed(ps[j])
        /\ \A j \in (w + 1)..Len(ps) : ps[j].form = "spread"
        /\ \A j \in 1..Len(ps[w].val.props) :
             Named(ps[w].val.props[j]) /\ ~Allowed(ps[w].val.props[j])
        /\ w - 1 = Cardinality({j \in 1..Len(last.before.props) :
                      Named(last.before.props[j]) /\ Allowed(last.before.props[j])})
        /\ Len(ps) - w = Cardinality({j \in 1..Len(last.before.props) :
                      last.before.props[j].form = "spread"})

C9_Witness ==
  /\ Restructured
  /\ TopBucket(last.after) # <<>>
  /\ SpreadBucket(last.after) # <<>>
  /\ \E j \in 1..Len(last.before.props) :
       last.before.props[j].form = "spread" /\ j < Len(last.before.props)

\* C10: within each bucket of the rebuilt literal the properties stand in
\* the relative order they had in the input literal.
C10_OrderPreserved ==
  Restructured =>
    /\ IsSubseq(TopBucket(last.after), last.before.props)
    /\ IsSubseq(NestedBucket(last.after), last.before.props)
    /\ IsSubseq(SpreadBucket(last.after), last.before.props)

C10_Witness ==
  /\ Restructured
  /\ Len(NestedBucket(last.after)) >= 2
  /\ NestedBucket(last.after)[1] # NestedBucket(last.after)[2]

\* the twelve keys the service model keeps at the top level of a resource
C11_AllowList ==
  {"location", "tags", "identity", "sku", "id", "name", "type", "kind",
   "etag", "systemData", "zones", "extendedLocation"}
C11_AllowKey(prop) == Named(prop) /\ prop.name \in C11_AllowList
\* a key that is neither allow-listed nor the `properties` group itself
C11_OtherKey(prop) ==
  Named(prop) /\ prop.name \notin C11_AllowList /\ prop.name # "properties"
C11_Mixed(lit) ==
  /\ \E j \in 1..Len(lit.props) : C11_AllowKey(lit.props[j])
  /\ \E j \in 1..Len(lit.props) : C11_OtherKey(lit.props[j])
\* in the literal `after` every allow-listed key of `before` stands at the
\* top level and no other key of `before` does
C11_Separated(before, after) ==
  /\ SelectSeq(after.props, C11_AllowKey) = SelectSeq(before.props, C11_AllowKey)
  /\ \A j \in 1..Len(after.props) : ~C11_OtherKey(after.props[j])

\* C11 as stated: after the transform has visited a literal with at least
\* one allow-listed key and at least one other key, every allow-listed key
\* is at the top level, outside the `properties` group, and no other key
\* remains at the top level.
C11_AsStated ==
  (last.op = "nest" /\ C11_Mixed(last.before)) =>
     C11_Separated(last.before, last.after)

\* C11: after the transform has visited a literal with at least one
\* allow-listed key, at least one other key and no key named `properties`,
\* the literal is restructured, every allow-listed key is at the top level
\* outside the `properties` group, no other key remains at the top level,
\* and every other key is inside the group.
C11_AllowListFidelity ==
  (/\ last.op = "nest"
   /\ C11_Mixed(last.before)
   /\ \A j \in 1..Len(last.before.props) :
        Named(last.before.props[j]) => last.before.props[j].name # "properties") =>
     /\ last.restructured
     /\ C11_Separated(last.before, last.after)
     /\ TopBucket(last.after) = SelectSeq(last.before.props, C11_AllowKey)
     /\ NestedBucket(last.after) = SelectSeq(last.before.props, C11_OtherKey)

C11_Witness ==
  /\ Restructured
  /\ \A j \in 1..Len(last.before.props) : ~HasKey(last.before.props[j], "properties")
  /\ \E j \in 1..Len(last.before.props) : last.before.props[j] = Prop("normal", "sku", V)
  /\ \E j \in 1..Len(last.before.props) : last.before.props[j] = Prop("normal", "location", V)
  /\ \E j \in 1..Len(last.before.props) : C11_OtherKey(last.before.props[j])

\* the callee name and the renamed call of an await-expression step
C12_Upper ==
  {"A","B","C","D","E","F","G","H","I","J","K","L","M",
   "N","O","P","Q","R","S","T","U","V","W","X","Y","Z"}
C12_IsCandidate(n) ==
  /\ Len(n) >= 6
  /\ SubSeq(n, 1, 5) = <<"b","e","g","i","n">>
  /\ n[6] \in C12_Upper
MemberCallStep ==
  /\ last.op = "lro"
  /\ last.before.e.k = "call"
  /\ last.before.e.callee.k = "member"
OldName == last.before.e.callee.name

\* C12: an awaited member call is rewritten exactly when its method name
\* starts with `begin`, is longer than five characters and has an uppercase
\* sixth character.
C12_CandidateClassification ==
  MemberCallStep => (last.changed <=> C12_IsCandidate(OldName))

C12_Witness ==
  /\ MemberCallStep
  /\ OldName = <<"b","e","g","i","n","w","o","r","k">>
  /\ ~last.changed

\* the call that carries the new method name after a rewrite
RenamedCall ==
  IF last.after.k = "call" THEN last.after
  ELSE IF /\ last.after.e.callee.k = "member"
          /\ last.after.e.callee.name = <<"s","u","b","m","i","t","t","e","d">>
          /\ last.after.e.callee.target.k = "call"
       THEN last.after.e.callee.target
       ELSE last.after.e
C13_Strip(n) ==
  LET r == SubSeq(n, 6, Len(n))
  IN  IF Len(r) >= 7 /\ SubSeq(r, Len(r) - 6, Len(r)) = <<"A","n","d","W","a","i","t">>
        THEN SubSeq(r, 1, Len(r) - 7)
        ELSE r
C13_Lower(c) ==
  CASE c = "C" -> "c" [] c = "S" -> "s" [] c = "B" -> "b" [] OTHER -> c
C13_Expected(n) ==
  [j \in 1..Len(C13_Strip(n)) |->
     IF j = 1 THEN C13_Lower(C13_Strip(n)[1]) ELSE C13_Strip(n)[j]]
createOrUpdate == <<"c","r","e","a","t","e","O","r","U","p","d","a","t","e">>

\* C13: the new method name of a rewritten call is the old name without the
\* leading `begin`, without a trailing `AndWait`, and with its first
\* character lowercased; beginCreateOrUpdate and beginCreateOrUpdateAndWait
\* both become createOrUpdate and beginStart becomes start.
C13_NameDerivation ==
  (MemberCallStep /\ last.changed) =>
     /\ RenamedCall.callee.name = C13_Expected(OldName)
     /\ OldName \in {beginCreateOrUpdate, beginCreateOrUpdateAndWait} =>
          RenamedCall.callee.name = createOrUpdate
     /\ OldName = beginStart => RenamedCall.callee.name = <<"s","t","a","r","t">>

C13_Witness ==
  /\ MemberCallStep
  /\ last.changed
  /\ OldName = beginCreateOrUpdateAndWait
  /\ RenamedCall.callee.name = createOrUpdate

\* the shapes of an await-expression step, read from the tree before it
C15_EndsAndWait(n) ==
  Len(n) >= 7 /\ SubSeq(n, Len(n) - 6, Len(n)) = <<"A","n","d","W","a","i","t">>
CandidateStep == MemberCallStep /\ C12_IsCandidate(OldName)
BoundStep ==
  /\ Len(last.path) = 3
  /\ NodeAt(last.pre, Parent(last.path)).k = "decl"
HostOf == last.pre.stmts[last.path[1]].host
\* the awaited call with nothing but its method name replaced
RenamedOperand == [last.before.e EXCEPT !.callee.name = C13_Expected(OldName)]
SubmittedName == <<"s","u","b","m","i","t","t","e","d">>

C14_Case ==
  /\ CandidateStep
  /\ ~C15_EndsAndWait(OldName)
  /\ BoundStep
  /\ HostOf = "block"

\* C14: when a candidate without the AndWait suffix is awaited as the
\* initializer of a binding whose statement sits in a block or at top
\* level, the step leaves the binding with the bare renamed call as its
\* initializer, inserts exactly one statement `await <name>.submitted();`
\* right after the binding's statement, and leaves every other statement
\* as it was.
C14_BoundPoller ==
  C14_Case =>
    LET idx  == last.path[1]
        d    == last.path[2]
        pre  == last.pre.stmts
        post == last.post.stmts
    IN  /\ Len(post) = Len(pre) + 1
        /\ post[idx] = [pre[idx] EXCEPT !.decls[d].init = RenamedOperand]
        /\ post[idx + 1] =
             ExprStmt(Await(Call(Member(Id(pre[idx].decls[d].name), SubmittedName),
                                 <<>>)))
        /\ \A j \in 1..Len(pre) :
             /\ j < idx => post[j] = pre[j]
             /\ j > idx => post[j + 1] = pre[j]

C14_Witness ==
  /\ C14_Case
  /\ last.path[1] = 1
  /\ Len(last.pre.stmts) = 2
  /\ last.pre.stmts[2] # last.post.stmts[2]
  /\ last.post.stmts[3] = last.pre.stmts[2]

\* C15: when the candidate name ends with `AndWait`, the tree after the
\* step differs from the tree before it in the method-name token only: the
\* await is kept, no `.submitted()` call and no statement is added, bound
\* or not.
C15_AndWaitPattern ==
  (CandidateStep /\ C15_EndsAndWait(OldName)) =>
     /\ last.post = ReplaceAt(last.pre, last.path,
                              [last.before EXCEPT !.e = RenamedOperand])
     /\ last.after.k = "await"
     /\ last.after.e.callee.name # SubmittedName
     /\ Len(last.post.stmts) = Len(last.pre.stmts)

C15_Witness ==
  /\ CandidateStep
  /\ C15_EndsAndWait(OldName)
  /\ BoundStep
  /\ last.changed
  /\ last.before.e.args # <<>>

C16_Case ==
  /\ CandidateStep
  /\ ~C15_EndsAndWait(OldName)
  /\ ~BoundStep

\* C16: when a candidate without the AndWait suffix is awaited and the
\* await-expression is not the initializer of a binding, the step replaces
\* it by `await <target>.<newName>(<args>).submitted()`: the await is kept
\* and no statement is inserted.
C16_UnboundAwait ==
  C16_Case =>
     /\ last.post = ReplaceAt(last.pre, last.path,
                      Await(Call(Member(RenamedOperand, SubmittedName), <<>>)))
     /\ Len(last.post.stmts) = Len(last.pre.stmts)

C16_Witness ==
  /\ C16_Case
  /\ last.pre.stmts[last.path[1]].k = "expr"
  /\ last.before.e.args # <<>>
  /\ last.after.k = "await"

\* C17: a call rewrite changes only the last method-name segment of the
\* callee: the target chain and the argument list of the rewritten call
\* are what they were before, in the bound, the AndWait and the unbound
\* pattern.
C17_OnlyNameChanges ==
  (MemberCallStep /\ last.changed) =>
     /\ RenamedCall.k = "call"
     /\ RenamedCall.callee.k = "member"
     /\ RenamedCall.callee.target = last.before.e.callee.target
     /\ RenamedCall.args = last.before.e.args
     /\ RenamedCall.callee.name # OldName

C17_Witness ==
  /\ C14_Case
  /\ last.before.e.callee.target = Member(Id("client"), <<"o","p","s">>)
  /\ \E j \in 1..Len(last.before.e.args) : last.before.e.args[j].k = "obj"
  /\ RenamedCall.args = last.before.e.args

C18_Case ==
  /\ CandidateStep
  /\ ~C15_EndsAndWait(OldName)
  /\ BoundStep
  /\ HostOf \in {"clause", "for"}

\* C18: when a bound candidate without the AndWait suffix sits in a
\* statement whose container is neither a block nor the top-level sequence,
\* or has no enclosing variable statement, the rewrite is a no-op: the tree
\* after the step is the tree before it and nothing is raised.
C18_SilentNoOp ==
  C18_Case => (last.post = last.pre /\ pc # "threw")

\* positions of the log of runCodemod
C19_At(e, f, what) == events[e] = [file |-> f, what |-> what]
C19_Before(e, f, what) == \E a \in 1..(e - 1) : C19_At(a, f, what)

\* C19: in runCodemod, the call-pattern pass starts on a file only right
\* after the literal pass has started and returned on that file; the
\* project is saved only as the last thing, after both passes have returned
\* on every file; with no file found no transform runs and nothing is saved.
C19_PipelineOrdering ==
  mode = "codemod" =>
    /\ \A e \in 1..Len(events) :
         events[e].what = "lro.start" =>
           /\ e >= 3
           /\ C19_At(e - 1, events[e].file, "nest.end")
           /\ C19_At(e - 2, events[e].file, "nest.start")
    /\ \A e \in 1..Len(events) :
         events[e].what = "save" =>
           /\ e = Len(events)
           /\ \A f \in 1..Len(files) :
                C19_Before(e, f, "nest.end") /\ C19_Before(e, f, "lro.end")
    /\ saved <=> \E e \in 1..Len(events) : events[e].what = "save"
    /\ Len(files) = 0 => (events = <<>> /\ ~saved)

C19_Witness ==
  /\ mode = "codemod"
  /\ saved
  /\ Len(files) = 2
  /\ files[1] # files[2]
  /\ Len(events) = 9

\* C20: during a pass the list being iterated keeps its length and the
\* loop index moves by exactly one position per iteration, towards the end
\* of the iteration: a node created by a step is never added to the list.
C20_PassTerminates ==
  [][ /\ (pc = "await" /\ pc' = "await") =>
           /\ Len(refs') = Len(refs)
           /\ i' = i + 1
           /\ i <= Len(refs)
      /\ (pc = "lit" /\ pc' = "lit") =>
           /\ Len(refs') = Len(refs)
           /\ i' = i - 1
           /\ i >= 1
      /\ (pc \in {"lit", "await"} /\ pc' \notin {pc, "threw"}) =>
           refs' = <<>> ]_vars

\* a pass goes on after a step that inserted a statement
C20_Witness ==
  /\ pc = "await"
  /\ last.op = "lro"
  /\ Len(last.post.stmts) > Len(last.pre.stmts)
  /\ i <= Len(refs)
  /\ NodeAt(tree, <<last.path[1] + 1, 1>>).k = "await"
  /\ \A j \in 1..Len(refs) : refs[j].path # <<last.path[1] + 1, 1>>

\* the literals nested in a literal, as paths below it
C21_Inner(lit) == getDescendantsOfKind(lit, "obj")

\* C21: in the literal pass no literal already processed is an ancestor of
\* one still to be processed, no step finds its literal invalidated, and
\* when a literal is visited every literal nested in it is already in the
\* form the transform leaves it in.
C21_InnermostFirst ==
  pc = "lit" =>
    /\ \A j \in 1..i : \A k \in (i + 1)..Len(refs) :
         ~IsPrefix(refs[k].path, refs[j].path)
    /\ last.op # "skip"
    /\ last.op = "nest" =>
         \A q \in 1..Len(C21_Inner(last.before)) :
           LET inner == NodeAt(last.before, C21_Inner(last.before)[q])
           IN  transformObjectLiteral(inner) = inner

\* an outer literal is rebuilt around an inner one rebuilt before it
C21_Witness ==
  /\ pc = "lit"
  /\ Restructured
  /\ \E q \in 1..Len(C21_Inner(last.before)) :
       LET inner == NodeAt(last.before, C21_Inner(last.before)[q])
       IN  /\ WrapperAt(inner) # {}
           /\ inner.props[TheWrapper(inner)].val.k = "obj"

\* the literals of a file that are eligible, and the `properties: { ... }`
\* groups in it
C22_EligibleIn(t) ==
  {q \in 1..Len(getDescendantsOfKind(t, "obj")) :
     C6_Eligible(NodeAt(t, getDescendantsOfKind(t, "obj")[q]))}
C22_GroupsIn(t) ==
  {q \in 1..Len(getDescendantsOfKind(t, "prop")) :
     LET m == NodeAt(t, getDescendantsOfKind(t, "prop")[q])
     IN  m.form = "normal" /\ m.name = "properties" /\ m.val.k = "obj"}

\* C22: after one literal pass the number of `properties` groups in the
\* file is the number of literals that were eligible in the input, siblings
\* and nested ones alike.
C22_EveryEligibleOnce ==
  (mode = "literal" /\ Len(texts) >= 1) =>
     Cardinality(C22_GroupsIn(texts[1])) = Cardinality(C22_EligibleIn(input))

C23_Case ==
  /\ last.op = "lro"
  /\ \/ last.before.e.k # "call"
     \/ last.before.e.callee.k # "member"

C24_IsBoundCandidate(d) ==
  /\ d.init.k = "await"
  /\ d.init.e.k = "call"
  /\ d.init.e.callee.k = "member"
  /\ C12_IsCandidate(d.init.e.callee.name)
  /\ ~C15_EndsAndWait(d.init.e.callee.name)
C24_Bound(t) ==
  {sd \in (1..Len(t.stmts)) \X (1..2) :
     /\ t.stmts[sd[1]].k = "var"
     /\ t.stmts[sd[1]].host = "block"
     /\ sd[2] <= Len(t.stmts[sd[1]].decls)
     /\ C24_IsBoundCandidate(t.stmts[sd[1]].decls[sd[2]])}
C24_Followed(t, name) ==
  \E k \in 1..(Len(t.stmts) - 1) :
    /\ t.stmts[k].k = "var"
    /\ \E dd \in 1..Len(t.stmts[k].decls) :
         t.stmts[k].decls[dd].name = name /\ t.stmts[k].decls[dd].init.k = "call"
    /\ t.stmts[k + 1] =
         ExprStmt(Await(Call(Member(Id(name), SubmittedName), <<>>)))

\* C24: after one call-pattern pass, for every bound candidate without the
\* AndWait suffix in a block-level statement of the input, the statement
\* `await <itsName>.submitted();` directly follows the statement that
\* declares that name.
C24_EachFollowedByItsOwn ==
  (mode = "lro" /\ Len(texts) >= 1) =>
     \A sd \in C24_Bound(input) :
       C24_Followed(texts[1], input.stmts[sd[1]].decls[sd[2]].name)

\* a step that left a binding's initializer without its await
C25_AwaitDropped ==
  /\ MemberCallStep
  /\ BoundStep
  /\ last.after.k # "await"

\* C25: a binding's initializer loses its `await` only if the statement
\* `await <bindingName>.submitted();` stands after the binding's statement
\* in the tree the step leaves.
C25_BoundRewriteConsistent ==
  C25_AwaitDropped =>
    LET name == NodeAt(last.pre, Parent(last.path)).name
    IN  \E k \in (last.path[1] + 1)..Len(last.post.stmts) :
          last.post.stmts[k] =
            ExprStmt(Await(Call(Member(Id(name), SubmittedName), <<>>)))

\* C26: the name a candidate is renamed to is not empty and is not itself a
\* candidate name.
C26_RewrittenNameValid ==
  (MemberCallStep /\ last.changed) =>
     /\ RenamedCall.callee.name # <<>>
     /\ ~C12_IsCandidate(RenamedCall.callee.name)

\* the `.submitted()` calls in a file, and the candidates of its
\* await-expressions that have no AndWait suffix
C27_SubmittedIn(t) ==
  {q \in 1..Len(getDescendantsOfKind(t, "call")) :
     LET c == NodeAt(t, getDescendantsOfKind(t, "call")[q])
     IN  c.callee.k = "member" /\ c.callee.name = SubmittedName}
C27_HookedIn(t) ==
  {q \in 1..Len(getDescendantsOfKind(t, "await")) :
     LET a == NodeAt(t, getDescendantsOfKind(t, "await")[q])
     IN  /\ a.e.k = "call"
         /\ a.e.callee.k = "member"
         /\ C12_IsCandidate(a.e.callee.name)
         /\ ~C15_EndsAndWait(a.e.callee.name)}

\* C27: one call-pattern pass adds exactly one `.submitted()` occurrence for
\* each candidate without the AndWait suffix and none for anything else.
C27_OneHookPerCandidate ==
  (mode = "lro" /\ Len(texts) >= 1) =>
     Cardinality(C27_SubmittedIn(texts[1]))
       = Cardinality(C27_SubmittedIn(input)) + Cardinality(C27_HookedIn(input))

\* C28: the two transforms commute: the text left by the literal transform
\* followed by the call-pattern transform is the text left by the
\* call-pattern transform followed by the literal transform.
C28_Commute ==
  (mode = "commute" /\ Len(texts) = 2) => texts[1] = texts[2]

\* the literal that is the value of the synthesized `properties` key
C29_Group == last.after.props[TheWrapper(last.after)].val

\* C29: the `properties: { ... }` literal produced by restructuring has no
\* allow-listed key among its own keys, and the classifier is false for it.
C29_GroupNeverEligible ==
  Restructured =>
     /\ C29_Group.k = "obj"
     /\ \A j \in 1..Len(C29_Group.props) :
          ~(Named(C29_Group.props[j]) /\ C29_Group.props[j].name \in C11_AllowList)
     /\ ~shouldTransformObjectLiteral(C29_Group)
     /\ transformObjectLiteral(C29_Group) = C29_Group

C29_Witness ==
  /\ Restructured
  /\ Len(C29_Group.props) = 2
  /\ C29_Group.props[1].name # C29_Group.props[2].name
  /\ ~shouldTransformObjectLiteral(C29_Group)
  /\ Len(TopBucket(last.after)) >= 1

\* C30: whenever restructureObjectLiteral is invoked the classifier was
\* true for the literal, the literal has no key named `properties`, and the
\* nested bucket is not empty; and whenever the classifier is true the
\* nested bucket is not empty.
C30_RestructurePrecondition ==
  /\ Restructured =>
       /\ shouldTransformObjectLiteral(last.before)
       /\ \A j \in 1..Len(last.before.props) :
            ~HasKey(last.before.props[j], "properties")
       /\ Len(categorizeProperties(last.before).nested) > 0
  /\ (last.op = "nest" /\ shouldTransformObjectLiteral(last.before)) =>
       Len(categorizeProperties(last.before).nested) > 0

====
